---- MODULE Spec2Model ----
(***************************************************************************)
(* Range-splitting proxy core of src/src/main.rs: one client request is    *)
(* answered by fetching the object from the origin in block_size ranges,   *)
(* a bounded FIFO pipeline of asynchronous fetches, and a writer that      *)
(* trims the fragments to the requested window.                            *)
(*                                                                         *)
(* Header values are strings and are parsed the way the code parses them   *)
(* (split_once, split, parse).  A body is the run of object offsets it     *)
(* holds; the client output is the sequence of runs written to it.         *)
(***************************************************************************)
EXTENDS Integers, Sequences, FiniteSets, TLC

(***************************************************************************)
(* Strings: str::split_once, str::split, str::parse::<usize>, format!      *)
(***************************************************************************)
NoSplit == <<>>

Char(s, i) == SubSeq(s, i, i)

RECURSIVE FindFrom(_, _, _)
FindFrom(s, c, i) ==
    IF i > Len(s) THEN 0
    ELSE IF Char(s, i) = c THEN i
    ELSE FindFrom(s, c, i + 1)

\* str::split_once(delim): <<before, after>> of the first delim, or NoSplit
SplitOnce(s, c) ==
    LET i == FindFrom(s, c, 1)
    IN  IF i = 0 THEN NoSplit
        ELSE <<SubSeq(s, 1, i - 1), SubSeq(s, i + 1, Len(s))>>

\* str::split(delim): every piece, empty pieces included
RECURSIVE Split(_, _)
Split(s, c) ==
    LET i == FindFrom(s, c, 1)
    IN  IF i = 0 THEN <<s>>
        ELSE <<SubSeq(s, 1, i - 1)>> \o Split(SubSeq(s, i + 1, Len(s)), c)

Digits == <<"0", "1", "2", "3", "4", "5", "6", "7", "8", "9">>

IsDigit(c) == \E d \in 1..10 : Digits[d] = c

DigitVal(c) == (CHOOSE d \in 1..10 : Digits[d] = c) - 1

RECURSIVE DigitsValue(_, _)
DigitsValue(s, acc) ==
    IF s = "" THEN acc
    ELSE DigitsValue(SubSeq(s, 2, Len(s)), acc * 10 + DigitVal(Char(s, 1)))

AllDigits(s) == \A i \in 1..Len(s) : IsDigit(Char(s, i))

\* str::parse::<usize>: an optional '+', then one or more digits;
\* <<n>> is Ok(n) and <<>> is Err
ParseErr == <<>>

ParseUsize(s) ==
    LET t == IF Len(s) > 0 /\ Char(s, 1) = "+" THEN SubSeq(s, 2, Len(s)) ELSE s
    IN  IF Len(t) > 0 /\ AllDigits(t) THEN <<DigitsValue(t, 0)>> ELSE ParseErr

\* format!("{}", n) of an unsigned number
RECURSIVE ToStr(_)
ToStr(n) ==
    IF n < 10 THEN Digits[n + 1]
    ELSE ToStr(n \div 10) \o Digits[(n % 10) + 1]

Min(a, b) == IF a <= b THEN a ELSE b

(***************************************************************************)
(* Config::new                                                             *)
(***************************************************************************)
DefaultBlockSize == 1024 * 1024
MinBlockSize == 1024 * 1024
MaxBlockSize == 50 * 1024 * 1024
DefaultParallelism == 5
MinParallelism == 1
MaxParallelism == 10
DefaultReadChunkSize == 65536
MinReadChunkSize == 1024
MaxReadChunkSize == 1024 * 1024

\* one part of the x-sc-conf field applied to the configuration so far
ConfigPart(cfg, part) ==
    LET kv == SplitOnce(part, "=")
    IN  IF kv = NoSplit THEN cfg
        ELSE LET parsed == ParseUsize(kv[2])
                 value == parsed[1]
             IN  CASE kv[1] = "b" ->
                        IF parsed # ParseErr /\ MinBlockSize <= value /\ value <= MaxBlockSize
                        THEN [cfg EXCEPT !.block_size = value] ELSE cfg
                   [] kv[1] = "p" ->
                        IF parsed # ParseErr /\ MinParallelism <= cfg.parallelism
                                             /\ cfg.parallelism <= MaxParallelism
                        THEN [cfg EXCEPT !.parallelism = value] ELSE cfg
                   [] kv[1] = "r" ->
                        IF parsed # ParseErr /\ MinReadChunkSize <= value /\ value <= MaxReadChunkSize
                        THEN [cfg EXCEPT !.read_chunk_size = value] ELSE cfg
                   [] OTHER -> cfg

RECURSIVE ConfigParts(_, _)
ConfigParts(cfg, parts) ==
    IF parts = <<>> THEN cfg
    ELSE ConfigParts(ConfigPart(cfg, Head(parts)), Tail(parts))

\* conf: the values of the request's x-sc-conf fields; get_header takes the first
ConfigNew(conf) ==
    LET defaults == [block_size |-> DefaultBlockSize,
                     parallelism |-> DefaultParallelism,
                     read_chunk_size |-> DefaultReadChunkSize]
    IN  IF conf = <<>> THEN defaults
        ELSE ConfigParts(defaults, Split(conf[1], ","))

(***************************************************************************)
(* RequestRange::new, ResolvedRange::new, ContentRange::new                *)
(***************************************************************************)
RangeErr(msg) == [ok |-> FALSE, some |-> FALSE, open |-> FALSE, first |-> 0, last |-> 0, err |-> msg]

RangeNone == [ok |-> TRUE, some |-> FALSE, open |-> FALSE, first |-> 0, last |-> 0, err |-> ""]

RangeOpen(f) == [ok |-> TRUE, some |-> TRUE, open |-> TRUE, first |-> f, last |-> 0, err |-> ""]

RangeClosed(f, l) == [ok |-> TRUE, some |-> TRUE, open |-> FALSE, first |-> f, last |-> l, err |-> ""]

\* values: the values of the request's range fields (get_header_all)
RequestRangeNew(values) ==
    IF Len(values) = 0 THEN RangeNone
    ELSE IF Len(values) >= 2 THEN RangeErr("multiple range fields")
    ELSE LET unit == SplitOnce(values[1], "=")
         IN  IF unit = NoSplit \/ unit[1] # "bytes" THEN RangeErr("range not bytes")
             ELSE LET fl == SplitOnce(unit[2], "-")
                  IN  IF fl = NoSplit THEN RangeErr("cannot parse requested range")
                      ELSE IF fl[1] = "" /\ Len(fl[2]) > 0
                           THEN RangeErr("suffix range not supported")
                      ELSE LET first == ParseUsize(fl[1])
                               last == ParseUsize(fl[2])
                           IN  IF fl[2] = ""
                               THEN IF first = ParseErr THEN RangeErr("range lower bound")
                                    ELSE RangeOpen(first[1])
                               ELSE IF first = ParseErr THEN RangeErr("range lower bound")
                                    ELSE IF last = ParseErr THEN RangeErr("range upper bound")
                                    ELSE IF last[1] < first[1]
                                         THEN RangeErr("range upper bound lower than lower bound")
                                    ELSE RangeClosed(first[1], last[1])

\* RequestRange::new(&req).ok().flatten() of doit: an Err becomes None
OkFlatten(r) == IF r.ok THEN r ELSE RangeNone

\* the requested last taken as it is, not clamped to the object
ResolvedRangeNoClamp(req_range, complete_length) ==
    IF req_range.some
    THEN IF req_range.first >= complete_length THEN [some |-> FALSE, first |-> 0, last |-> 0]
         ELSE [some |-> TRUE,
               first |-> req_range.first,
               last |-> IF req_range.open THEN complete_length - 1 ELSE req_range.last]
    ELSE [some |-> TRUE, first |-> 0, last |-> complete_length - 1]

\* a first equal to the complete length taken as satisfiable
ResolvedRangeOffByOne(req_range, complete_length) ==
    IF req_range.some
    THEN IF req_range.first > complete_length THEN [some |-> FALSE, first |-> 0, last |-> 0]
         ELSE [some |-> TRUE,
               first |-> req_range.first,
               last |-> IF req_range.open THEN complete_length - 1
                        ELSE Min(req_range.last, complete_length - 1)]
    ELSE [some |-> TRUE, first |-> 0, last |-> complete_length - 1]

\* the requested last ignored: every satisfiable range runs to the object's end
ResolvedRangeToEnd(req_range, complete_length) ==
    IF req_range.some
    THEN IF req_range.first >= complete_length THEN [some |-> FALSE, first |-> 0, last |-> 0]
         ELSE [some |-> TRUE, first |-> req_range.first, last |-> complete_length - 1]
    ELSE [some |-> TRUE, first |-> 0, last |-> complete_length - 1]

NoRange == [some |-> FALSE, first |-> 0, last |-> 0]

\* ResolvedRange::new; NoRange is None
ResolvedRangeNew(req_range, complete_length) ==
    IF req_range.some
    THEN IF req_range.first >= complete_length THEN NoRange
         ELSE [some |-> TRUE,
               first |-> req_range.first,
               last |-> IF req_range.open THEN complete_length - 1
                        ELSE Min(req_range.last, complete_length - 1)]
    ELSE [some |-> TRUE, first |-> 0, last |-> complete_length - 1]

ContentRangeErr(msg) == [ok |-> FALSE, first |-> 0, last |-> 0, complete_length |-> 0, err |-> msg]

\* values: the values of the response's content-range fields
ContentRangeNew(values) ==
    IF Len(values) = 0 THEN ContentRangeErr("missing content-range")
    ELSE IF Len(values) >= 2 THEN ContentRangeErr("multiple content-range fields")
    ELSE LET unit == SplitOnce(values[1], " ")
         IN  IF unit = NoSplit \/ unit[1] # "bytes" THEN ContentRangeErr("content-range not bytes")
             ELSE LET rl == SplitOnce(unit[2], "/")
                  IN  IF rl = NoSplit THEN ContentRangeErr("cannot parse content-range")
                      ELSE IF rl[2] = "*"
                           THEN ContentRangeErr("unknown complete length in content-range not supported")
                      ELSE IF rl[1] = "*"
                           THEN ContentRangeErr("unsatisfied range in content-range not supported")
                      ELSE LET len == ParseUsize(rl[2])
                               fl == SplitOnce(rl[1], "-")
                           IN  IF len = ParseErr THEN ContentRangeErr("content-range complete length")
                               ELSE IF len[1] = 0 THEN ContentRangeErr("zero complete length in content-range")
                               ELSE IF fl = NoSplit THEN ContentRangeErr("cannot parse range in content-range")
                               ELSE LET first == ParseUsize(fl[1])
                                        last == ParseUsize(fl[2])
                                    IN  IF first = ParseErr THEN ContentRangeErr("content-range lower bound")
                                        ELSE IF last = ParseErr THEN ContentRangeErr("content-range upper bound")
                                        ELSE IF last[1] < first[1]
                                             THEN ContentRangeErr("content-range upper bound lower than lower bound")
                                        ELSE IF first[1] >= len[1]
                                             THEN ContentRangeErr("content-range lower bound not lower than complete length")
                                        ELSE IF last[1] >= len[1]
                                             THEN ContentRangeErr("content-range upper bound not lower than complete length")
                                        ELSE [ok |-> TRUE, first |-> first[1], last |-> last[1],
                                              complete_length |-> len[1], err |-> ""]

\* Fragment::new: the body with the bounds its Content-Range declares.  A body
\* is [first, len]: it holds the object's bytes first .. first+len-1.
FragmentNew(body, content_range) ==
    [body |-> body, first |-> content_range.first, last |-> content_range.last]

(***************************************************************************)
(* BodyStreamingState and FragReqGen                                       *)
(***************************************************************************)
BodyStreamingStateNew(range, config) ==
    [position |-> range.first, last |-> range.last,
     block_size |-> config.block_size, buf_len |-> config.read_chunk_size]

\* The read loops of send_fragment: read min(remainder, buf.len()) bytes at a
\* time until remainder is 0 or the body is exhausted (a read of 0 bytes).
\* Returns the number of bytes read; fewer than remainder is a truncated body.
RECURSIVE ReadLoop(_, _, _)
ReadLoop(remainder, avail, buf_len) ==
    IF remainder = 0 THEN 0
    ELSE LET rsize == Min(Min(remainder, buf_len), avail)
         IN  IF rsize = 0 THEN 0
             ELSE rsize + ReadLoop(remainder - rsize, avail - rsize, buf_len)

\* the run of object offsets lo..hi as written to the client, none when empty
Run(lo, hi) == IF lo <= hi THEN <<[lo |-> lo, hi |-> hi]>> ELSE <<>>

\* how: "append" when the body was handed over whole, "write_bytes" when it was
\* copied through buf, "" when the call ended before either
SendResult(outcome, position, out, err, how) ==
    [outcome |-> outcome, position |-> position, out |-> out, err |-> err, how |-> how]

\* send_fragment without the leading trim
TrimCountNone(st, frag) == 0

\* the leading trim of send_fragment: position - frag.first bytes are read and dropped
TrimCount(st, frag) == IF st.position > frag.first THEN st.position - frag.first ELSE 0

\* the fragment test at the head of send_fragment
Unexpected(st, frag) == st.position < frag.first \/ st.position >= frag.last

\* every fragment appended whole
AppendBranchAlways(st, frag) == TRUE

\* the branch test turned round: append when the fragment reaches last or beyond
AppendBranchInverted(st, frag) == frag.last >= st.last

\* the branch test of send_fragment: TRUE appends the body, FALSE copies through buf
AppendBranch(st, frag) == st.last >= frag.last

\* send_fragment.  checked: the build checks arithmetic overflow (a debug build
\* panics where a release build wraps).  outcome is "ok", "err" or "panic";
\* out is what reached the client, also when the call fails half way.
SendFragment(st, frag, checked) ==
    IF Unexpected(st, frag)
    THEN SendResult("err", st.position, <<>>, "unexpected fragment", "")
    ELSE LET trim == TrimCount(st, frag)
             dropped == ReadLoop(trim, frag.body.len, st.buf_len)
             avail == frag.body.len - dropped
             from == frag.body.first + dropped
         IN  IF dropped < trim
             THEN SendResult("err", st.position, <<>>, "truncated fragment", "")
             ELSE IF AppendBranch(st, frag)
             THEN SendResult("ok", frag.last + 1, Run(from, from + avail - 1), "", "append")
             ELSE LET last == Min(frag.last, st.last)
                  IN  IF last + 1 < st.position
                      \* last - position wraps to a count no body can hold
                      THEN IF checked
                           THEN SendResult("panic", st.position, <<>>, "attempt to subtract with overflow", "")
                           ELSE SendResult("err", st.position, Run(from, from + avail - 1),
                                           "truncated fragment", "write_bytes")
                      ELSE IF last + 1 = st.position
                      \* last - position wraps to the largest usize, and adding 1 wraps to 0
                      THEN IF checked
                           THEN SendResult("panic", st.position, <<>>, "attempt to subtract with overflow", "")
                           ELSE SendResult("ok", last + 1, <<>>, "", "write_bytes")
                      ELSE LET remainder == last - st.position + 1
                               copied == ReadLoop(remainder, avail, st.buf_len)
                           IN  IF copied < remainder
                               THEN SendResult("err", st.position, Run(from, from + copied - 1),
                                               "truncated fragment", "write_bytes")
                               ELSE SendResult("ok", last + 1, Run(from, from + copied - 1), "", "write_bytes")

\* frag_req_gen
FragReqGenNew(st) == [position |-> st.position, last |-> st.last, block_size |-> st.block_size]

GenHasNext(gen) == gen.position <= gen.last

\* FragReqGen::next: the range it yields and the generator after it
GenRange(gen) == "bytes=" \o ToStr(gen.position) \o "-" \o ToStr(gen.position + gen.block_size - 1)

GenAdvance(gen) == [gen EXCEPT !.position = gen.position + gen.block_size]

(***************************************************************************)
(* The origin.  It holds one object of object_len bytes; a response is     *)
(* [status, content_range, body], content_range the values of its          *)
(* content-range fields and body the run of object bytes it carries.       *)
(***************************************************************************)
ContentRangeStr(f, l, n) == "bytes " \o ToStr(f) \o "-" \o ToStr(l) \o "/" \o ToStr(n)

Body(f, l) == [first |-> f, len |-> IF l >= f THEN l - f + 1 ELSE 0]

Response(status, content_range, body) ==
    [status |-> status, content_range |-> content_range, body |-> body]

\* the answer of an origin that serves range requests exactly
ExactResponse(range, n) ==
    LET r == RequestRangeNew(<<range>>)
        e == Min(r.last, n - 1)
    IN  IF r.first < n
        THEN Response(206, <<ContentRangeStr(r.first, e, n)>>, Body(r.first, e))
        ELSE Response(416, <<"bytes */" \o ToStr(n)>>, Body(0, -1))

\* how far a deviating origin response is off the requested range
Skew == 1
ShortBy == 1
LongBy == 2

\* answers of an origin that does not: other bounds, another length, a body
\* that is not what the header declares, a header the validator must refuse,
\* another status
DeviantResponses(range, n) ==
    LET r == RequestRangeNew(<<range>>)
        a == r.first
        e == Min(r.last, n - 1)
        firsts == {f \in {a - Skew, a, a + Skew} : f >= 0}
        lasts == {l \in {e - ShortBy, e, e + LongBy} : l >= 0}
    IN  {Response(206, <<ContentRangeStr(f, l, n)>>, Body(f, l)) : f \in firsts, l \in lasts}
        \cup {Response(206, <<ContentRangeStr(a, e, m)>>, Body(a, e)) : m \in {0, n + 1}}
        \cup {Response(206, <<ContentRangeStr(a, e, n)>>, [first |-> a, len |-> k]) :
                 k \in {k \in {e - a, e - a + 2} : k >= 0}}
        \cup {Response(206, cr, Body(a, e)) :
                 cr \in {<<>>,
                         <<ContentRangeStr(a, e, n), ContentRangeStr(a, e, n)>>,
                         <<"items " \o ToStr(a) \o "-" \o ToStr(e) \o "/" \o ToStr(n)>>,
                         <<"bytes " \o ToStr(a) \o "-" \o ToStr(e) \o "/*">>,
                         <<"bytes */" \o ToStr(n)>>,
                         <<"bytes " \o ToStr(a) \o "-" \o ToStr(e)>>,
                         <<"bytes " \o ToStr(a) \o "/" \o ToStr(n)>>,
                         <<"bytes " \o ToStr(a) \o "-end/" \o ToStr(n)>>}}
        \cup {Response(st, <<>>, Body(0, n - 1)) : st \in {200, 404}}

\* at most MaxDeviant answers of one client request deviate
MaxDeviant == 1

OriginResponses(range, n, may_deviate) ==
    {ExactResponse(range, n)} \cup (IF may_deviate THEN DeviantResponses(range, n) ELSE {})

(***************************************************************************)
(* Responses to the client                                                 *)
(***************************************************************************)
\* a response head as the client sees it; via is the call that sent it
ResponseHead(status, content_range, content_length, allow, body, via) ==
    [status |-> status, content_range |-> content_range, content_length |-> content_length,
     allow |-> allow, body |-> body, via |-> via]

MethodNotAllowed == ResponseHead(405, <<>>, <<>>, <<"GET, HEAD">>, "Method not allowed\n", "send_to_client")

Forbidden == ResponseHead(403, <<>>, <<>>, <<>>, "Request body not allowed\n", "send_to_client")

\* doit without the body check
EarlyResponseNoBodyCheck(request) ==
    IF request.method \notin {"GET", "HEAD"} THEN <<MethodNotAllowed>> ELSE <<>>

\* the method and body checks of doit: the response doit returns at once, if any
EarlyResponse(request) ==
    IF request.method \notin {"GET", "HEAD"} THEN <<MethodNotAllowed>>
    ELSE IF request.has_body THEN <<Forbidden>>
    ELSE <<>>

\* a first backend response that is not 206 goes to the client as it is
PassThrough(beresp) ==
    ResponseHead(beresp.status, beresp.content_range, <<>>, <<>>, "beresp body", "send_to_client")

RangeNotSatisfiable(complete_length) ==
    ResponseHead(416, <<"bytes */" \o ToStr(complete_length)>>, <<>>, <<>>,
         "Range not satisfiable\n", "send_to_client")

\* the head doit commits with stream_to_client
Committed(req_range, range, complete_length) ==
    ResponseHead(IF req_range.some THEN 206 ELSE 200,
         IF req_range.some
         THEN <<"bytes " \o ToStr(range.first) \o "-" \o ToStr(range.last)
                  \o "/" \o ToStr(complete_length)>>
         ELSE <<>>,
         <<ToStr(range.last - range.first + 1)>>,
         <<>>, "", "stream_to_client")

InternalServerError(e) == ResponseHead(500, <<>>, <<>>, <<>>, e, "send_to_client")

\* main answering 500 to every error, headers committed or not
MainSendsAlways(sent, header_sent, kind, resp, e) ==
    CASE kind = "OkSome" -> Append(sent, resp)
      [] kind = "Err" -> Append(sent, ResponseHead(500, <<>>, <<>>, <<>>, e, "send_to_client"))
      [] OTHER -> sent

\* main: what the client has been sent once doit has returned `kind`
\* ("OkNone", "OkSome" with resp, "Err" with e) or has panicked
MainSends(sent, header_sent, kind, resp, e) ==
    CASE kind = "OkSome" -> Append(sent, resp)
      [] kind = "Err" -> IF header_sent THEN sent ELSE Append(sent, InternalServerError(e))
      [] OTHER -> sent

\* the range of the first, synchronous backend request
ProbeFirst(req_range, config) ==
    ((IF req_range.some THEN req_range.first ELSE 0) \div config.block_size) * config.block_size

ProbeLast(req_range, config) == ProbeFirst(req_range, config) + config.block_size - 1

\* the newest handle instead of the oldest
PopIndexBack(queue) == Len(queue)

\* the handle the fetch loop awaits next: queue.pop_front()
PopIndex(queue) == 1

(***************************************************************************)
(* Requests and objects the model is run on                                *)
(***************************************************************************)
\* objects of up to MaxBlocks default blocks and a little more
MaxBlocks == 2

\* the object length of the spec's scenarios A to E
ScenarioLength == 10000000

BS == DefaultBlockSize

Methods == {"GET", "HEAD", "POST"}

ConfHeaders ==
    {<<>>, <<"p=1">>, <<"p=2">>, <<"p=0">>, <<"p=11">>, <<"b=2097152,r=1048576">>}

RangeHeaders ==
    {<<>>}
    \cup {<<"bytes=" \o ToStr(f) \o "-">> : f \in {0, BS - 1, MaxBlocks * BS}}
    \cup {<<"bytes=" \o ToStr(c[1]) \o "-" \o ToStr(c[2])>> :
             c \in {<<0, 0>>, <<1, BS>>, <<0, MaxBlocks * BS>>, <<BS - 1, MaxBlocks * BS - 1>>}}
    \cup {<<"bytes=-500">>, <<"bytes=0-1", "bytes=4-5">>, <<"items=0-5">>,
          <<"bytes=9-5">>, <<"bytes=a-b">>, <<"bytes=5">>}

ObjectLengths == {1, 2} \cup {k * BS + d : k \in 1..MaxBlocks, d \in {0, 1, 3}}

Request(method, has_body, range, conf) ==
    [method |-> method, has_body |-> has_body, range |-> range, conf |-> conf]

\* every range header against every object under the default configuration,
\* every configuration and every method against a few of them, and the
\* requests of the spec's scenarios
Cases ==
    {[req |-> Request("GET", FALSE, r, <<>>), n |-> n] : r \in RangeHeaders, n \in ObjectLengths}
    \cup {[req |-> Request("GET", FALSE, r, c), n |-> n] :
             c \in ConfHeaders,
             r \in {<<>>, <<"bytes=0-" \o ToStr(MaxBlocks * BS)>>, <<"bytes=" \o ToStr(BS - 1) \o "-">>},
             n \in {BS + 1, MaxBlocks * BS + 3}}
    \cup {[req |-> Request(m, b, r, <<>>), n |-> BS + 1] :
             m \in Methods, b \in BOOLEAN, r \in {<<>>, <<"bytes=0-0">>, <<"bytes=-500">>}}
    \cup {[req |-> Request("GET", FALSE, r, <<>>), n |-> ScenarioLength] :
             r \in {<<>>, <<"bytes=500000-599999">>,
                    <<"bytes=" \o ToStr(ScenarioLength - 1) \o "-">>,
                    <<"bytes=" \o ToStr(ScenarioLength) \o "-">>}}

(***************************************************************************)
(* State                                                                   *)
(***************************************************************************)
VARIABLES
    req,              \* the client request: method, has_body, range and x-sc-conf values
    object_len,       \* the length of the origin's object
    overflow_checks,  \* the build: "checked" panics on overflow, "wrapping" wraps;
                      \* "unobserved" until the first overflow shows which
    pc,               \* where doit is: "start", "probe", "fill", "wait", "done"
    config,
    req_range,
    complete_length,
    resolved_range,   \* doit's `range`: the window of the object that is served
    state,            \* BodyStreamingState: position, last, block_size, buf_len
    frag_req_gen,
    queue,            \* the handles of send_async, oldest first: [id, done]
    promise,          \* the handle popped off the queue and being waited for
    resp_header_sent,
    result,           \* how doit ended: [kind, err], kind "running" until it has
    client,           \* the response heads sent to the client, in order
    out,              \* the object bytes streamed to the client, in order, as the runs
                      \* [lo, hi] of consecutive offsets they form
    requests,         \* the backend requests sent, in order: [range, async]
    delivered,        \* the ids of the requests whose fragment went to send_fragment
    origin            \* what the origin did so far: exact, every answer was the exact
                      \* one; deviant, how many were not; bodies, every body held the
                      \* bytes its Content-Range declares; failed, a transport call failed

vars == <<req, object_len, overflow_checks, pc, config, req_range, complete_length,
          resolved_range, state, frag_req_gen, queue, promise, resp_header_sent, result,
          client, out, requests, delivered, origin>>

NoPromise == [id |-> 0, done |-> FALSE]

Init ==
    /\ \E c \in Cases : req = c.req /\ object_len = c.n
    /\ overflow_checks = "unobserved"
    /\ pc = "start"
    /\ config = ConfigNew(<<>>)
    /\ req_range = RangeNone
    /\ complete_length = 0
    /\ resolved_range = NoRange
    /\ state = [position |-> 0, last |-> 0, block_size |-> 0, buf_len |-> 0]
    /\ frag_req_gen = [position |-> 0, last |-> 0, block_size |-> 0]
    /\ queue = <<>>
    /\ promise = NoPromise
    /\ resp_header_sent = FALSE
    /\ result = [kind |-> "running", err |-> ""]
    /\ client = <<>>
    /\ out = <<>>
    /\ requests = <<>>
    /\ delivered = <<>>
    /\ origin = [exact |-> TRUE, deviant |-> 0, bodies |-> TRUE, failed |-> FALSE]

\* doit returns (or panics) and main acts on it
Return(kind, resp, e, sent, header_sent) ==
    /\ pc' = "done"
    /\ result' = [kind |-> kind, err |-> e]
    /\ client' = MainSends(sent, header_sent, kind, resp, e)
    /\ resp_header_sent' = header_sent

NoResponse == ResponseHead(0, <<>>, <<>>, <<>>, "", "")

\* the origin's record after it answered `range` with `resp`
Answered(range, resp) ==
    [origin EXCEPT
        !.exact = @ /\ resp = ExactResponse(range, object_len),
        !.deviant = IF resp = ExactResponse(range, object_len) THEN @ ELSE @ + 1,
        !.bodies = @ /\ LET cr == ContentRangeNew(resp.content_range)
                        IN  cr.ok => resp.body = Body(cr.first, cr.last)]

\* the client output after `runs` were written to it: bytes that follow the last
\* byte written so far extend its run
Emit(stream, runs) ==
    IF runs = <<>> THEN stream
    ELSE IF stream # <<>> /\ stream[Len(stream)].hi + 1 = runs[1].lo
    THEN [stream EXCEPT ![Len(stream)].hi = runs[1].hi]
    ELSE stream \o runs

\* the build shows on an overflow: either setting, unless it has shown before
Builds == IF overflow_checks = "unobserved" THEN {"checked", "wrapping"} ELSE {overflow_checks}

\* send_fragment under `build`, and the build as far as the call has shown it
Send(st, frag, build) == SendFragment(st, frag, build = "checked")

Shown(st, frag, build) ==
    IF SendFragment(st, frag, TRUE) # SendFragment(st, frag, FALSE) THEN build ELSE overflow_checks

(***************************************************************************)
(* doit, lines 318-362: the request is read and checked, and the first     *)
(* backend request is sent                                                 *)
(***************************************************************************)
Start ==
    /\ pc = "start"
    /\ LET cfg == ConfigNew(req.conf)
           rr == OkFlatten(RequestRangeNew(req.range))
       IN  /\ config' = cfg
           /\ req_range' = rr
           /\ IF EarlyResponse(req) # <<>>
              THEN /\ Return("OkSome", EarlyResponse(req)[1], "", client, resp_header_sent)
                   /\ UNCHANGED requests
              ELSE /\ requests' = Append(requests,
                          [range |-> "bytes=" \o ToStr(ProbeFirst(rr, cfg)) \o "-"
                                        \o ToStr(ProbeLast(rr, cfg)),
                           async |-> FALSE])
                   /\ pc' = "probe"
                   /\ UNCHANGED <<result, client, resp_header_sent>>
    /\ UNCHANGED <<req, object_len, overflow_checks, complete_length, resolved_range,
                   state, frag_req_gen, queue, promise, out, delivered, origin>>

\* bereq.send fails
ProbeSendFails ==
    /\ pc = "probe"
    /\ Return("Err", NoResponse, "first backend request send", client, resp_header_sent)
    /\ origin' = [origin EXCEPT !.failed = TRUE]
    /\ UNCHANGED <<req, object_len, overflow_checks, config, req_range, complete_length,
                   resolved_range, state, frag_req_gen, queue, promise, out, requests,
                   delivered>>

\* a HEAD request served like a GET
HeaderOnlyNever(request) == FALSE

\* the method test of line 321: a HEAD request gets the head and no body
HeaderOnly(request) == request.method = "HEAD"

\* the checks of the first backend response once its status is 206 (lines
\* 353-362): the error doit returns, "" when the response passes
FirstResponseError(beresp, rr, cfg) ==
    LET content_range == ContentRangeNew(beresp.content_range)
    IN  IF ~content_range.ok
        THEN "first backend response: " \o content_range.err
        ELSE IF \/ content_range.first # ProbeFirst(rr, cfg)
                \/ content_range.last > ProbeLast(rr, cfg)
        THEN "fragment content range unexpected for request range"
        ELSE ""

\* bereq.send returns beresp; doit runs on to the fetch loop (lines 350-406)
ProbeReturns(beresp, build) ==
    /\ pc = "probe"
    /\ origin' = Answered(requests[1].range, beresp)
    /\ LET content_range == ContentRangeNew(beresp.content_range)
           resolved == ResolvedRangeNew(req_range, content_range.complete_length)
           sent == Append(client, Committed(req_range, resolved, content_range.complete_length))
           st == BodyStreamingStateNew(resolved, config)
           frag1 == FragmentNew(beresp.body, content_range)
           r == Send(st, frag1, build)
           st1 == [st EXCEPT !.position = r.position]
       IN  IF beresp.status # 206
           THEN /\ Return("OkSome", PassThrough(beresp), "", client, FALSE)
                /\ UNCHANGED <<overflow_checks, complete_length, resolved_range, state,
                               frag_req_gen, out, delivered>>
           ELSE IF FirstResponseError(beresp, req_range, config) # ""
           THEN /\ Return("Err", NoResponse, FirstResponseError(beresp, req_range, config),
                          client, FALSE)
                /\ UNCHANGED <<overflow_checks, complete_length, resolved_range, state,
                               frag_req_gen, out, delivered>>
           ELSE /\ complete_length' = content_range.complete_length
                /\ resolved_range' = resolved
                /\ IF ~resolved.some
                   THEN /\ Return("OkSome", RangeNotSatisfiable(content_range.complete_length), "",
                                  client, FALSE)
                        /\ UNCHANGED <<overflow_checks, state, frag_req_gen, out, delivered>>
                   ELSE IF HeaderOnly(req)
                   THEN /\ Return("OkNone", NoResponse, "", sent, TRUE)
                        /\ UNCHANGED <<overflow_checks, state, frag_req_gen, out, delivered>>
                   ELSE /\ delivered' = Append(delivered, 1)
                        /\ out' = Emit(out, r.out)
                        /\ state' = st1
                        /\ overflow_checks' = Shown(st, frag1, build)
                        /\ IF r.outcome = "ok"
                           THEN /\ frag_req_gen' = FragReqGenNew(st1)
                                /\ pc' = "fill"
                                /\ client' = sent
                                /\ resp_header_sent' = TRUE
                                /\ UNCHANGED result
                           ELSE /\ Return(IF r.outcome = "panic" THEN "Panic" ELSE "Err",
                                          NoResponse, "sending first fragment: " \o r.err, sent, TRUE)
                                /\ UNCHANGED frag_req_gen
    /\ UNCHANGED <<req, object_len, config, req_range, queue, promise, requests>>

(***************************************************************************)
(* doit, lines 408-446: the fetch loop                                     *)
(***************************************************************************)
\* one handle too many
CanSubmitOneMore == Len(queue) <= config.parallelism /\ GenHasNext(frag_req_gen)

CanSubmit == Len(queue) < config.parallelism /\ GenHasNext(frag_req_gen)

\* one turn of the inner while loop: the next range is sent with send_async
Submit ==
    /\ pc = "fill"
    /\ CanSubmit
    /\ requests' = Append(requests, [range |-> GenRange(frag_req_gen), async |-> TRUE])
    /\ queue' = Append(queue, [id |-> Len(requests) + 1, done |-> FALSE])
    /\ frag_req_gen' = GenAdvance(frag_req_gen)
    /\ UNCHANGED <<req, object_len, overflow_checks, pc, config, req_range,
                   complete_length, resolved_range, state, promise, resp_header_sent,
                   result, client, out, delivered, origin>>

\* send_async fails
SubmitFails ==
    /\ pc = "fill"
    /\ CanSubmit
    /\ frag_req_gen' = GenAdvance(frag_req_gen)
    /\ Return("Err", NoResponse, "backend request send_async", client, resp_header_sent)
    /\ origin' = [origin EXCEPT !.failed = TRUE]
    /\ UNCHANGED <<req, object_len, overflow_checks, config, req_range, complete_length,
                   resolved_range, state, queue, promise, out, requests, delivered>>

\* the inner loop is over and a handle is outstanding: it is popped and waited for
PopFront ==
    /\ pc = "fill"
    /\ ~CanSubmit
    /\ queue # <<>>
    /\ LET i == PopIndex(queue)
       IN  /\ promise' = queue[i]
           /\ queue' = SubSeq(queue, 1, i - 1) \o SubSeq(queue, i + 1, Len(queue))
    /\ pc' = "wait"
    /\ UNCHANGED <<req, object_len, overflow_checks, config, req_range, complete_length,
                   resolved_range, state, frag_req_gen, resp_header_sent, result, client,
                   out, requests, delivered, origin>>

\* the inner loop is over and no handle is outstanding: doit returns Ok(None)
LoopEnds ==
    /\ pc = "fill"
    /\ ~CanSubmit
    /\ queue = <<>>
    /\ Return("OkNone", NoResponse, "", client, resp_header_sent)
    /\ UNCHANGED <<req, object_len, overflow_checks, config, req_range, complete_length,
                   resolved_range, state, frag_req_gen, queue, promise, out, requests,
                   delivered, origin>>

\* the origin's answer to an outstanding asynchronous request arrives, in any order
Completes(i) ==
    /\ pc \in {"fill", "wait"}
    /\ i \in 1..Len(queue)
    /\ ~queue[i].done
    /\ queue' = [queue EXCEPT ![i].done = TRUE]
    /\ UNCHANGED <<req, object_len, overflow_checks, pc, config, req_range,
                   complete_length, resolved_range, state, frag_req_gen, promise,
                   resp_header_sent, result, client, out, requests, delivered, origin>>

PromiseCompletes ==
    /\ pc = "wait"
    /\ ~promise.done
    /\ promise' = [promise EXCEPT !.done = TRUE]
    /\ UNCHANGED <<req, object_len, overflow_checks, pc, config, req_range,
                   complete_length, resolved_range, state, frag_req_gen, queue,
                   resp_header_sent, result, client, out, requests, delivered, origin>>

\* promise.wait() fails
WaitFails ==
    /\ pc = "wait"
    /\ Return("Err", NoResponse, "backend request wait", client, resp_header_sent)
    /\ origin' = [origin EXCEPT !.failed = TRUE]
    /\ promise' = NoPromise
    /\ UNCHANGED <<req, object_len, overflow_checks, config, req_range, complete_length,
                   resolved_range, state, frag_req_gen, queue, out, requests, delivered>>

\* the complete length of a later response not compared with the first one's
FragmentErrorNoLength(beresp, expected) ==
    IF beresp.status # 206
    THEN "fragment status code rather than 206"
    ELSE IF ~ContentRangeNew(beresp.content_range).ok
    THEN ContentRangeNew(beresp.content_range).err
    ELSE ""

\* the checks of a later backend response (lines 426-439): the error doit
\* returns, "" when the response passes and goes to send_fragment
FragmentError(beresp, expected) ==
    LET content_range == ContentRangeNew(beresp.content_range)
    IN  IF beresp.status # 206
        THEN "fragment status code rather than 206"
        ELSE IF ~content_range.ok
        THEN content_range.err
        ELSE IF content_range.complete_length # expected
        THEN "complete length inconsistent between fragments"
        ELSE ""

\* promise.wait() returns beresp: it is validated and handed to send_fragment
WaitReturns(beresp, build) ==
    /\ pc = "wait"
    /\ promise.done
    /\ origin' = Answered(requests[promise.id].range, beresp)
    /\ promise' = NoPromise
    /\ LET content_range == ContentRangeNew(beresp.content_range)
           frag == FragmentNew(beresp.body, content_range)
           r == Send(state, frag, build)
       IN  IF FragmentError(beresp, complete_length) # ""
           THEN /\ Return("Err", NoResponse, FragmentError(beresp, complete_length),
                          client, resp_header_sent)
                /\ UNCHANGED <<overflow_checks, state, out, delivered>>
           ELSE /\ delivered' = Append(delivered, promise.id)
                /\ out' = Emit(out, r.out)
                /\ state' = [state EXCEPT !.position = r.position]
                /\ overflow_checks' = Shown(state, frag, build)
                /\ IF r.outcome = "ok"
                   THEN /\ pc' = "fill"
                        /\ UNCHANGED <<result, client, resp_header_sent>>
                   ELSE Return(IF r.outcome = "panic" THEN "Panic" ELSE "Err",
                               NoResponse, r.err, client, resp_header_sent)
    /\ UNCHANGED <<req, object_len, config, req_range, complete_length, resolved_range,
                   frag_req_gen, queue, requests>>

\* what the origin may answer to the id-th backend request
Answers(id) ==
    IF id \in 1..Len(requests)
    THEN OriginResponses(requests[id].range, object_len, origin.deviant < MaxDeviant)
    ELSE {}

Next ==
    \/ Start
    \/ ProbeSendFails
    \/ \E beresp \in Answers(1), build \in Builds : ProbeReturns(beresp, build)
    \/ Submit
    \/ SubmitFails
    \/ PopFront
    \/ LoopEnds
    \/ \E i \in 1..Len(queue) : Completes(i)
    \/ PromiseCompletes
    \/ WaitFails
    \/ \E beresp \in Answers(promise.id), build \in Builds : WaitReturns(beresp, build)

Spec == Init /\ [][Next]_vars

(***************************************************************************)
(* Claims                                                                  *)
(***************************************************************************)
\* the window a request asks for of an object of n bytes, as the claims state it
Asked == RequestRangeNew(req.range)

AskedFirst == IF Asked.some THEN Asked.first ELSE 0

AskedLast(n) == IF Asked.some /\ ~Asked.open THEN Min(Asked.last, n - 1) ELSE n - 1

Returned == pc = "done"

\* C1: against an origin that answers every range request exactly, with
\* parallelism in 1..10, a GET whose Range is absent or resolves to a window
\* ends without error and streams exactly the object's bytes first..last, in order.
C1_ExactOriginDeliversWindow ==
    (/\ Returned
     /\ req.method = "GET" /\ ~req.has_body
     /\ Asked.ok /\ AskedFirst < object_len
     /\ origin.exact /\ ~origin.failed
     /\ config.parallelism \in MinParallelism..MaxParallelism)
    => /\ result.kind = "OkNone"
       /\ out = <<[lo |-> AskedFirst, hi |-> AskedLast(object_len)]>>

\* C2: when every validated response's body holds the bytes its Content-Range
\* declares, every byte written to the client lies inside the resolved window
\* and the offsets written are strictly increasing.
C2_OutputInsideWindowIncreasing ==
    origin.bodies =>
        \A i \in 1..Len(out) :
            /\ out[i].lo <= out[i].hi
            /\ (IF req_range.some THEN req_range.first ELSE 0) <= out[i].lo
            /\ out[i].hi <= state.last
            /\ state.last <= complete_length - 1
            /\ (i > 1 => out[i - 1].hi < out[i].lo)

\* C2 witness: a request served to its end from several fragments, one of them not
\* the requested range, a tail of which had to be cut off
C2_Witness ==
    /\ Returned /\ result.kind = "OkNone"
    /\ origin.bodies /\ origin.deviant > 0
    /\ Len(delivered) >= 2
    /\ state.last < complete_length - 1
    /\ out = <<[lo |-> req_range.first, hi |-> state.last]>>

\* C3: fragments reach send_fragment in the order their requests were sent,
\* whatever order they complete in, and the handle waited for is the oldest
\* outstanding one.
C3_FifoDelivery ==
    /\ \A k \in 1..Len(delivered) : delivered[k] = k
    /\ pc = "fill" => \A i \in 1..Len(queue) : queue[i].id = Len(delivered) + i
    /\ pc = "wait" => \A i \in 1..Len(queue) : queue[i].id = Len(delivered) + 1 + i
    /\ pc = "wait" => promise.id = Len(delivered) + 1

\* C3 witness: a later fetch has completed while the oldest is still waited for
C3_Witness ==
    /\ pc = "wait" /\ ~promise.done
    /\ Len(queue) >= 2 /\ queue[2].done /\ ~queue[1].done
    /\ Len(delivered) >= 2

\* the fetches sent with send_async and not yet returned by wait
Outstanding == Len(queue) + (IF promise = NoPromise THEN 0 ELSE 1)

\* C4: the queue never holds more than parallelism handles, no more than
\* parallelism fetches are outstanding, and no asynchronous fetch exists while
\* the first, synchronous one is outstanding.
C4_QueueBounded ==
    /\ Len(queue) <= config.parallelism
    /\ Outstanding <= config.parallelism
    /\ pc = "probe" => Outstanding = 0 /\ Len(requests) = 1 /\ ~requests[1].async
    /\ \A i \in 2..Len(requests) : requests[i].async

\* C4 witness: the queue is full while the generator has more ranges to yield
C4_Witness ==
    /\ pc = "fill"
    /\ Len(queue) = config.parallelism
    /\ config.parallelism = DefaultParallelism
    /\ GenHasNext(frag_req_gen)

\* C5: after a valid first 206 that declares n bytes: no Range header gives 200
\* with Content-Length n and no Content-Range; a range that resolves to
\* first..last gives 206, Content-Range "bytes first-last/n" and Content-Length
\* last-first+1; a requested first >= n gives 416 with Content-Range "bytes */n".
C5_CommittedHead ==
    (pc \notin {"start", "probe"} /\ complete_length > 0) =>
        LET n == complete_length
            h == client[1]
        IN  /\ Len(client) = 1
            /\ req.range = <<>> =>
                  /\ h.status = 200
                  /\ h.content_length = <<ToStr(n)>>
                  /\ h.content_range = <<>>
            /\ (Asked.ok /\ Asked.some /\ Asked.first < n) =>
                  /\ h.status = 206
                  /\ h.content_range = <<"bytes " \o ToStr(AskedFirst) \o "-" \o ToStr(AskedLast(n))
                                           \o "/" \o ToStr(n)>>
                  /\ h.content_length = <<ToStr(AskedLast(n) - AskedFirst + 1)>>
            /\ (Asked.ok /\ Asked.some /\ Asked.first >= n) =>
                  /\ h.status = 416
                  /\ h.content_range = <<"bytes */" \o ToStr(n)>>

\* C5 witness: scenario B
C5_Witness ==
    /\ req.range = <<"bytes=500000-599999">>
    /\ object_len = ScenarioLength
    /\ client = <<ResponseHead(206, <<"bytes 500000-599999/10000000">>, <<"100000">>, <<>>, "",
                               "stream_to_client")>>
    /\ requests[1].range = "bytes=0-1048575"

\* the requested first is at or past the length the first fetch declared
Unsatisfiable == complete_length > 0 /\ Asked.ok /\ Asked.some /\ Asked.first >= complete_length

Is500(h) == h.status = 500 /\ h.via = "send_to_client" /\ h.body = result.err

\* C7: main answers 500 exactly when doit failed with the headers not yet
\* committed; after stream_to_client nothing else is sent; a request gets at
\* most one response head.
C7_OneHeadAnd500 ==
    /\ Len(client) <= 1
    /\ resp_header_sent => Len(client) = 1 /\ client[1].via = "stream_to_client"
    /\ Returned =>
          ((\E i \in 1..Len(client) : Is500(client[i]))
              <=> (result.kind = "Err" /\ ~resp_header_sent))
    /\ ~Returned => \A i \in 1..Len(client) : client[i].via = "stream_to_client"

\* C7 witness: doit failed in the fetch loop, after the headers went out
C7_Witness ==
    /\ Returned /\ result.kind = "Err" /\ resp_header_sent
    /\ Len(delivered) >= 2
    /\ client[1].status = 206

\* C8: a request whose Range header is malformed or of an unsupported form is
\* answered 4xx and no backend request is sent for it.
C8_MalformedRange4xx ==
    ~Asked.ok =>
        /\ requests = <<>>
        /\ Returned => Len(client) = 1 /\ client[1].status \in 400..499

\* C9: a method other than GET and HEAD is answered 405 with Allow: GET, HEAD,
\* a GET or HEAD with a body is answered 403, and neither sends a backend request.
C9_MethodAndBody ==
    /\ req.method \notin {"GET", "HEAD"} =>
          /\ requests = <<>> /\ pc \in {"start", "done"}
          /\ Returned => /\ Len(client) = 1 /\ client[1].status = 405
                         /\ client[1].allow = <<"GET, HEAD">>
                         /\ client[1].via = "send_to_client"
    /\ (req.method \in {"GET", "HEAD"} /\ req.has_body) =>
          /\ requests = <<>> /\ pc \in {"start", "done"}
          /\ Returned => /\ Len(client) = 1 /\ client[1].status = 403
                         /\ client[1].via = "send_to_client"

\* C9 witness: a HEAD request with a body has been answered
C9_Witness ==
    /\ Returned /\ req.method = "HEAD" /\ req.has_body
    /\ client = <<Forbidden>>

\* C10: whatever the x-sc-conf header, the parallelism of Config::new lies in 1..10.
C10_ParallelismClamped ==
    pc # "start" => config.parallelism \in MinParallelism..MaxParallelism

\* the first backend response was a valid 206 and the window asked for lies in
\* the object
FirstValidAndSatisfiable ==
    /\ pc \notin {"start", "probe"}
    /\ complete_length > 0
    /\ resolved_range.some

\* C11: a HEAD request whose first backend response is a valid 206 and whose
\* range can be satisfied ends with the response head committed (200 or 206, by
\* stream_to_client), with the probe as the only backend request of the whole
\* request, and with no body byte streamed.
C11_HeadOnlyProbe ==
    (req.method = "HEAD" /\ FirstValidAndSatisfiable) =>
        /\ Returned
        /\ result = [kind |-> "OkNone", err |-> ""]
        /\ resp_header_sent
        /\ Len(client) = 1
        /\ client[1].via = "stream_to_client"
        /\ client[1].status \in {200, 206}
        /\ Len(requests) = 1
        /\ ~requests[1].async
        /\ out = <<>>
        /\ delivered = <<>>

C11_Witness ==
    /\ req.method = "HEAD"
    /\ Asked.ok /\ Asked.some
    /\ FirstValidAndSatisfiable
    /\ Returned
    /\ client[1].status = 206

\* C12: for an object of N > 0 bytes ResolvedRange::new gives {0, N-1} when no
\* range was requested, None exactly when the requested first is N or more, and
\* otherwise {first, min(requested last, N-1)}, an open range counting as a
\* last of infinity; every range it gives has first <= last < N.
C12_ResolvedRange ==
    (pc \notin {"start", "probe"} /\ complete_length > 0) =>
        LET N == complete_length
        IN  /\ ~req_range.some =>
                   resolved_range = [some |-> TRUE, first |-> 0, last |-> N - 1]
            /\ ~resolved_range.some <=> (req_range.some /\ req_range.first >= N)
            /\ (req_range.some /\ req_range.first < N) =>
                   resolved_range =
                       [some |-> TRUE,
                        first |-> req_range.first,
                        last |-> IF req_range.open \/ req_range.last > N - 1
                                 THEN N - 1 ELSE req_range.last]
            /\ resolved_range.some =>
                   /\ resolved_range.first <= resolved_range.last
                   /\ resolved_range.last < N

\* a closed range that starts inside the object and is cut at its end
C12_Witness ==
    /\ pc \notin {"start", "probe"}
    /\ complete_length > 0
    /\ req_range.some /\ ~req_range.open
    /\ req_range.first > 0
    /\ req_range.last > complete_length - 1
    /\ resolved_range = [some |-> TRUE, first |-> req_range.first, last |-> complete_length - 1]

\* a backend response that is no fragment of the object being served
BadFragment(beresp) ==
    \/ beresp.status # 206
    \/ ~ContentRangeNew(beresp.content_range).ok
    \/ ContentRangeNew(beresp.content_range).complete_length # complete_length

\* C13: when a fragment after the first has a status other than 206, an invalid
\* Content-Range, or a complete length other than the first response's, the
\* request aborts at once with an error: no byte of that fragment is emitted,
\* nothing reaches send_fragment, no backend request is added, the committed
\* head stays as it is, and once doit has returned nothing more is submitted,
\* awaited or emitted.
C13_BadFragmentAborts ==
    [][/\ pc # "done"
       /\ \A beresp \in Answers(promise.id), build \in Builds :
              (BadFragment(beresp) /\ WaitReturns(beresp, build)) =>
                  /\ pc' = "done"
                  /\ result'.kind = "Err"
                  /\ out' = out
                  /\ delivered' = delivered
                  /\ state' = state
                  /\ requests' = requests
                  /\ queue' = queue
                  /\ client' = client
                  /\ resp_header_sent' = resp_header_sent]_vars

\* Scenario E: the head is committed, the first fragment is out, fetches are
\* outstanding, and a later fragment names another complete length
C13_Witness ==
    /\ Returned
    /\ result = [kind |-> "Err", err |-> "complete length inconsistent between fragments"]
    /\ Len(client) = 1 /\ client[1].status \in {200, 206}
    /\ delivered = <<1>>
    /\ out # <<>>
    /\ queue # <<>>

\* the number of bytes in the runs written to the client
RECURSIVE Streamed(_)
Streamed(stream) ==
    IF stream = <<>> THEN 0
    ELSE stream[1].hi - stream[1].lo + 1 + Streamed(Tail(stream))

\* C14: whenever doit returns Ok(None) for a GET after committing a 200 or 206
\* head, the writer's position is last + 1 and the bytes streamed number the
\* committed Content-Length, for every configuration and every sequence of
\* backend responses that passes the program's checks.
C14_OkMeansComplete ==
    (/\ Returned
     /\ result.kind = "OkNone"
     /\ req.method = "GET"
     /\ Len(client) = 1
     /\ client[1].status \in {200, 206}) =>
        /\ state.position = state.last + 1
        /\ origin.bodies => client[1].content_length = <<ToStr(Streamed(out))>>

\* the Range value is 'bytes=s-(s+block_size-1)' for a multiple s of block_size
BlockAligned(value, block_size) ==
    LET r == RequestRangeNew(<<value>>)
    IN  /\ r.ok /\ r.some /\ ~r.open
        /\ r.first % block_size = 0
        /\ r.last = r.first + block_size - 1
        /\ value = "bytes=" \o ToStr(r.first) \o "-" \o ToStr(r.last)

\* C15: every range request sent to the origin, the synchronous first one and
\* every pipelined one, is 'bytes=s-(s+block_size-1)' with s a multiple of
\* block_size, whatever accepted responses came before it, a first 206 whose
\* Content-Range ends before the requested block's end included.
C15_RequestsBlockAligned ==
    \A i \in 1..Len(requests) : BlockAligned(requests[i].range, config.block_size)

\* the send_fragment calls doit can make next, each as [st, frag]: the first
\* one when the probe's answer passes its checks, a later one when the awaited
\* answer passes its
FirstCalls ==
    {[st |-> BodyStreamingStateNew(
                 ResolvedRangeNew(req_range, ContentRangeNew(b.content_range).complete_length),
                 config),
      frag |-> FragmentNew(b.body, ContentRangeNew(b.content_range))] :
        b \in {a \in Answers(1) :
                   /\ a.status = 206
                   /\ FirstResponseError(a, req_range, config) = ""
                   /\ ResolvedRangeNew(req_range,
                          ContentRangeNew(a.content_range).complete_length).some}}

LaterCalls ==
    {[st |-> state, frag |-> FragmentNew(b.body, ContentRangeNew(b.content_range))] :
        b \in {a \in Answers(promise.id) : FragmentError(a, complete_length) = ""}}

Calls ==
    IF pc = "probe" /\ ~HeaderOnly(req) THEN FirstCalls
    ELSE IF pc = "wait" THEN LaterCalls
    ELSE {}

\* C16: the writer's position is at most last + 1 in every state, before and
\* after every send_fragment call, and a call that succeeds leaves the position
\* where it was or further on.
C16_PositionBoundedMonotone ==
    /\ state.position <= state.last + 1
    /\ \A c \in Calls, build \in Builds :
           LET r == Send(c.st, c.frag, build)
           IN  /\ c.st.position <= c.st.last + 1
               /\ r.position <= c.st.last + 1
               /\ r.outcome = "ok" => r.position >= c.st.position

\* fragments were sent, the window is complete, and one more answer is awaited
C16_Witness ==
    /\ pc = "wait"
    /\ Len(delivered) >= 2
    /\ state.position = state.last + 1
    /\ \E c \in Calls, build \in Builds : Send(c.st, c.frag, build).outcome = "ok"

\* the body of call c that is left after the leading trim, as a run of offsets
AfterTrim(c) ==
    Run(c.frag.body.first + (c.st.position - c.frag.first),
        c.frag.body.first + c.frag.body.len - 1)

\* C17 as stated: a successful send_fragment appends the whole body left after
\* the trim and sets position to fragment.last + 1 whenever fragment.last >=
\* last; otherwise it copies min(fragment.last, last) - position + 1 bytes
\* through buf and sets position to that boundary + 1.
C17_AppendWhenFragmentReachesLast ==
    \A c \in Calls, build \in Builds :
        LET r == Send(c.st, c.frag, build)
            boundary == Min(c.frag.last, c.st.last)
        IN  r.outcome = "ok" =>
                IF c.frag.last >= c.st.last
                THEN /\ r.how = "append"
                     /\ r.out = AfterTrim(c)
                     /\ r.position = c.frag.last + 1
                ELSE /\ r.how = "write_bytes"
                     /\ Streamed(r.out) = boundary - c.st.position + 1
                     /\ r.position = boundary + 1

\* C17, amended: a successful send_fragment appends the whole body left after
\* the trim and sets position to fragment.last + 1 whenever last >=
\* fragment.last; otherwise (the fragment runs past last) it copies only the
\* bytes position..last through buf, none when position is last + 1 already,
\* and sets position to last + 1.
C17_AppendWhenLastReachesFragment ==
    \A c \in Calls, build \in Builds :
        LET r == Send(c.st, c.frag, build)
        IN  r.outcome = "ok" =>
                IF c.st.last >= c.frag.last
                THEN /\ r.how = "append"
                     /\ r.out = AfterTrim(c)
                     /\ r.position = c.frag.last + 1
                ELSE /\ r.how = "write_bytes"
                     /\ r.out = Run(c.st.position, c.st.last)
                     /\ Streamed(r.out) = c.st.last - c.st.position + 1
                     /\ r.position = c.st.last + 1

\* a fragment that runs past last is about to be copied, after a fragment that
\* ended before last was appended
C17_Witness ==
    /\ pc = "wait"
    /\ delivered # <<>>
    /\ out # <<>>
    /\ \E c \in Calls, build \in Builds :
           /\ c.frag.last > c.st.last
           /\ c.st.position > c.frag.first
           /\ Send(c.st, c.frag, build).outcome = "ok"
           /\ Send(c.st, c.frag, build).how = "write_bytes"
           /\ Send(c.st, c.frag, build).out # <<>>

\* C18: send_fragment accepts every fragment that covers the writer's position
\* (fragment.first <= position <= fragment.last), and rejects every other one
\* with 'unexpected fragment', with no byte emitted and position unchanged.
C18_CoveringFragmentAccepted ==
    \A c \in Calls, build \in Builds :
        LET r == Send(c.st, c.frag, build)
        IN  IF c.frag.first <= c.st.position /\ c.st.position <= c.frag.last
            THEN r.err # "unexpected fragment"
            ELSE /\ r.outcome = "err"
                 /\ r.err = "unexpected fragment"
                 /\ r.out = <<>>
                 /\ r.position = c.st.position

\* the backend requests for the blocks bf..bl of block_size bytes, in order:
\* the synchronous probe, then the pipelined fetches
BlockRequests(bf, bl, block_size) ==
    [k \in 1..(bl - bf + 1) |->
        [range |-> "bytes=" \o ToStr((bf + k - 1) * block_size) \o "-"
                      \o ToStr((bf + k) * block_size - 1),
         async |-> k > 1]]

\* C19: against an origin that answers every request exactly, a GET for the
\* window first..last makes one backend request per block the window overlaps:
\* the probe for the block holding first, then the blocks after it in
\* increasing order up to the block holding last, and no more; the generator
\* is then exhausted and the loop ends with Ok(None).  So 10 requests for an
\* object of 10,000,000 bytes and no Range, and one for Range: bytes=0-0.
C19_OneRequestPerBlock ==
    (/\ req.method = "GET"
     /\ origin.exact /\ ~origin.failed
     /\ pc \notin {"start", "probe"}
     /\ complete_length > 0
     /\ resolved_range.some) =>
        LET expected == BlockRequests(resolved_range.first \div config.block_size,
                                      resolved_range.last \div config.block_size,
                                      config.block_size)
        IN  /\ Len(requests) <= Len(expected)
            /\ requests = SubSeq(expected, 1, Len(requests))
            /\ Returned =>
                   /\ requests = expected
                   /\ result.kind = "OkNone"
                   /\ ~GenHasNext(frag_req_gen)
                   /\ queue = <<>>

\* C20: no unsigned subtraction of send_fragment goes below zero in any
\* reachable state: position - frag.first is taken only when position >
\* frag.first, and min(frag.last, last) - position + 1 only when position <=
\* min(frag.last, last); no fragment is accepted into the copy branch once
\* position is last + 1, whatever validated responses came before.
C20_NoUnsignedUnderflow ==
    /\ overflow_checks = "unobserved"
    /\ result.kind # "Panic"
    /\ \A c \in Calls, build \in {"checked", "wrapping"} :
           LET r == Send(c.st, c.frag, build)
           IN  /\ r.outcome # "panic"
               /\ r.err # "unexpected fragment" => c.st.position - c.frag.first >= 0
               /\ r.how = "write_bytes" => c.st.position <= Min(c.frag.last, c.st.last)

====
